---- MODULE Spec2Model ----
(***************************************************************************)
(* Model of the Airbnb listing monitor (src/airbnb_monitor_github.py).     *)
(*                                                                         *)
(* One run of the program is main(): the environment checks, the           *)
(* construction of AirbnbMonitorGitHub (which loads the search URLs and    *)
(* the seen-set store), then run_once() -> check_for_new_listings():       *)
(* poll every search URL in turn, detect the new listings, save the store, *)
(* send the digest.  The store file seen_listings.json is the only state   *)
(* that survives from one run to the next.                                 *)
(***************************************************************************)
EXTENDS Integers, Sequences, FiniteSets, TLC

(***************************************************************************)
(* Bounds of the model.                                                    *)
(***************************************************************************)
MaxIds == 3        \* distinct listing ids the site can show
MaxSources == 2    \* search URLs the environment can configure
MaxPerPage == 2    \* listing nodes extracted from one rendered page
MaxFileLen == 2    \* entries of the store file before the first run
MaxRuns == 2       \* scheduled runs against one store

Ids == 1..MaxIds

Range(s) == {s[k] : k \in DOMAIN s}

SeqsUpTo(S, n) == UNION {[1..m -> S] : m \in 0..n}

\* Every order in which the elements of a set can be listed.
Orders(S) == {s \in [1..Cardinality(S) -> S] : Range(s) = S}

IdsOf(listings) == {listings[k].id : k \in DOMAIN listings}

(***************************************************************************)
(* The store file.  kind says what a reader finds at 'seen_listings.json': *)
(*   absent      os.path.exists is False                                   *)
(*   unreadable  the file exists and open(..., 'r') raises OSError         *)
(*   invalid     not a JSON document (empty or cut short included)         *)
(*   scalar      a JSON number, string or null                             *)
(*   list        the legacy format, a bare JSON list of ids                *)
(*   badlist     a bare JSON list with an unhashable entry (a list, an     *)
(*               object)                                                   *)
(*   wrapped     {"seen_listings": [...], "last_updated", "total_urls"}    *)
(*   nokey       a JSON object without the key "seen_listings"             *)
(*   badvalue    a JSON object whose "seen_listings" is not iterable       *)
(* items is the JSON list of ids, in file order, for list and wrapped.     *)
(***************************************************************************)
NoContentKinds ==
    {"absent", "unreadable", "invalid", "scalar", "badlist", "nokey", "badvalue"}

ContentKinds == {"list", "wrapped"}

File(kind, items) == [kind |-> kind, items |-> items]

Files ==
    {File(k, <<>>) : k \in NoContentKinds}
        \cup {File(k, s) : k \in ContentKinds, s \in SeqsUpTo(Ids, MaxFileLen)}

\* The ids a well-formed store file holds.
FileIds(f) == IF f.kind \in ContentKinds THEN Range(f.items) ELSE {}

(***************************************************************************)
(* load_seen_listings.  The body of the try block either returns a set or  *)
(* raises; the except clause catches the subclasses of Exception.          *)
(***************************************************************************)
Returned(s) == [exc |-> "none", val |-> s]

Raised(e) == [exc |-> e, val |-> {}]

load_try_NoLegacy(f) ==
    CASE f.kind = "absent" -> [exc |-> "fallthrough", val |-> {}]
      [] f.kind = "unreadable" -> Raised("OSError")
      [] f.kind = "invalid" -> Raised("JSONDecodeError")
      [] f.kind = "list" -> Raised("AttributeError")
      [] f.kind = "wrapped" -> Returned(Range(f.items))
      [] f.kind = "nokey" -> Returned({})
      [] f.kind = "badvalue" -> Raised("TypeError")
      [] f.kind = "badlist" -> Raised("TypeError")
      [] f.kind = "scalar" -> Raised("AttributeError")

load_try(f) ==
    CASE f.kind = "absent" -> [exc |-> "fallthrough", val |-> {}]
      [] f.kind = "unreadable" -> Raised("OSError")
      [] f.kind = "invalid" -> Raised("JSONDecodeError")
      [] f.kind = "list" -> Returned(Range(f.items))
      [] f.kind = "wrapped" -> Returned(Range(f.items))
      [] f.kind = "nokey" -> Returned({})
      [] f.kind = "badvalue" -> Raised("TypeError")
      [] f.kind = "badlist" -> Raised("TypeError")
      [] f.kind = "scalar" -> Raised("AttributeError")

ExceptionSubclasses == {"OSError", "JSONDecodeError", "AttributeError", "TypeError"}

load_except_OnlyOSError(e) == e = "OSError"

load_except(e) == e \in ExceptionSubclasses

\* raised: the exception left the method; fallback: the final 'return set()'.
load_seen_listings(f) ==
    LET r == load_try(f)
    IN  IF r.exc = "none"
        THEN [raised |-> FALSE, fallback |-> FALSE, seen |-> r.val]
        ELSE IF r.exc = "fallthrough" \/ load_except(r.exc)
        THEN [raised |-> FALSE, fallback |-> TRUE, seen |-> {}]
        ELSE [raised |-> TRUE, fallback |-> FALSE, seen |-> {}]

(***************************************************************************)
(* save_seen_listings writes the wrapped object; list(self.seen_listings)  *)
(* lists the set in an order the set decides.                              *)
(***************************************************************************)
save_data_NoList(seen, order) == File("wrapped", <<>>)

save_data(seen, order) == File("wrapped", order)

\* open(self.data_file, 'w') truncates the file before anything is written.
Truncated == File("invalid", <<>>)

\* The except clause of save_seen_listings logs and returns to the caller.
save_except_Reraise == "finally"

save_except == "notify"

(***************************************************************************)
(* get_listing_for_url: the tail of the method, the removal of duplicate   *)
(* ids from the extracted listings.                                        *)
(***************************************************************************)
Listing(id, n) == [id |-> id, search_name |-> n]

unique_listings_NoCheck(current, k, seen_ids, unique) == current

RECURSIVE unique_listings(_, _, _, _)
unique_listings(current, k, seen_ids, unique) ==
    IF k > Len(current) THEN unique
    ELSE IF current[k].id \notin seen_ids
         THEN unique_listings(current, k + 1, seen_ids \cup {current[k].id},
                              Append(unique, current[k]))
         ELSE unique_listings(current, k + 1, seen_ids, unique)

\* The listings extracted from the nodes of a page, before deduplication.
Extracted(nodes, n) == [k \in DOMAIN nodes |-> Listing(nodes[k], n)]

(***************************************************************************)
(* get_listing_for_url, lines 291-408: the rendered page, the selector     *)
(* loop and the extraction of one record per element.                      *)
(*                                                                         *)
(* A text is the sequence of its words.  A node is what the extraction     *)
(* reads from an element:                                                  *)
(*   href    <<>>: no a[href*='/rooms/'] at or under the element           *)
(*           (find_element raises); <<id>>: a /rooms/ link whose id        *)
(*           segment is id, where ShortId has at most 3 characters         *)
(*   titles  the texts of the title elements found, in strategy order      *)
(*   prices  the texts of the price candidates, in the order the two       *)
(*           nested loops over price_selectors and price_elements visit    *)
(*           them                                                          *)
(* The image strategies (lines 368-386) fill image_url only and are left   *)
(* out.                                                                    *)
(***************************************************************************)
NodeCap == 20      \* elements[:20]
MinIdLen == 3      \* len(listing_id) > 3
MaxNodes == 2      \* nodes written out one by one in a selector's match
MaxSpans == 2      \* title or price candidates under one node

Min(a, b) == IF a < b THEN a ELSE b

Currencies == {"kr", "$", "EUR", "DKK", "SEK"}

PriceTexts == {<<>>, <<"2", "beds">>, <<"$", "120">>, <<"950", "kr">>}

TitleTexts == {<<>>, <<"Cosy", "flat">>}

\* A Python value that is a str, and None.
Str(t) == [none |-> FALSE, text |-> t]

None == [none |-> TRUE, text |-> <<>>]

PriceNotAvailable == <<"Price", "not", "available">>

Node(href, titles, prices) == [href |-> href, titles |-> titles, prices |-> prices]

\* An id segment that fails len(listing_id) > 3.
ShortId == MaxIds + 1

Hrefs == {<<>>} \cup {<<id>> : id \in Ids \cup {ShortId}}

Nodes ==
    {Node(h, t, p) : h \in Hrefs, t \in SeqsUpTo(TitleTexts, MaxSpans),
                     p \in SeqsUpTo(PriceTexts, MaxSpans)}

\* len(listing_id) of the id segment of a link.
IdLength(id) == IF id = ShortId THEN MinIdLen ELSE MinIdLen + 1

\* any(currency in price_text for currency in [...])
has_currency(text) == \E k \in DOMAIN text : text[k] \in Currencies

\* Lines 323-343: the first title strategy with a non-empty text, else the
\* placeholder "Airbnb Listing {id}".
RECURSIVE title_loop(_, _)
title_loop(titles, k) ==
    IF k > Len(titles) THEN <<>>
    ELSE IF titles[k] # <<>> THEN titles[k]
    ELSE title_loop(titles, k + 1)

listing_name(titles, id) ==
    LET title == title_loop(titles, 1)
    IN  IF title # <<>> THEN Str(title) ELSE Str(<<"Airbnb", "Listing", id>>)

\* Lines 345-366: the first candidate that is non-empty and holds a currency
\* marker, else the initial value of price.
price_initial_None == None

price_initial == Str(PriceNotAvailable)

RECURSIVE price_loop(_, _)
price_loop(prices, k) ==
    IF k > Len(prices) THEN price_initial
    ELSE IF prices[k] # <<>> /\ has_currency(prices[k]) THEN Str(prices[k])
    ELSE price_loop(prices, k + 1)

\* Lines 310-400: one element.  ok says whether a record was appended.
extract(node, search_name) ==
    IF node.href = <<>> \/ ~(IdLength(node.href[1]) > MinIdLen)
    THEN [ok |-> FALSE, listing |-> <<>>]
    ELSE [ok |-> TRUE,
          listing |-> [id |-> node.href[1],
                       name |-> listing_name(node.titles, node.href[1]),
                       url |-> node.href,
                       price |-> price_loop(node.prices, 1),
                       search_name |-> search_name]]

\* for element in elements[:20]
take_cap_All(elements) == elements

take_cap(elements) == SubSeq(elements, 1, Min(Len(elements), NodeCap))

RECURSIVE element_loop(_, _, _, _)
element_loop(elements, k, search_name, current) ==
    IF k > Len(elements) THEN current
    ELSE LET e == extract(elements[k], search_name)
         IN  element_loop(elements, k + 1, search_name,
                          IF e.ok THEN Append(current, e.listing) ELSE current)

(***************************************************************************)
(* The page as the four listing selectors see it.  cards are the elements  *)
(* with data-testid='card-container' (divs says whether they are div       *)
(* elements), anchors the /rooms/ links outside cards and items, items the *)
(* div[itemProp='itemListElement'] elements.  A /rooms/ link under a card  *)
(* or an item is itself an element the anchor selector matches.            *)
(***************************************************************************)
listing_selectors == <<"card", "div_card", "anchor", "item">>

RECURSIVE LinksOf(_)
LinksOf(nodes) ==
    IF nodes = <<>> THEN <<>>
    ELSE (IF nodes[1].href = <<>> THEN <<>>
          ELSE <<Node(nodes[1].href, <<>>, <<>>)>>) \o LinksOf(Tail(nodes))

find_elements(page, selector) ==
    CASE selector = "card" -> page.cards
      [] selector = "div_card" -> IF page.divs THEN page.cards ELSE <<>>
      [] selector = "anchor" ->
            LinksOf(page.cards) \o page.anchors \o LinksOf(page.items)
      [] selector = "item" -> page.items

\* if current_listings: break
stop_after_Never(current) == FALSE

stop_after(current) == current # <<>>

\* queried: the selectors passed to find_elements, in order; matched,
\* processed, appended: per selector queried, the elements it matched, the
\* elements the extraction loop went through and the records it appended.
RECURSIVE selector_loop(_, _, _, _)
selector_loop(page, search_name, s, acc) ==
    IF s > Len(listing_selectors) THEN acc
    ELSE LET elements == find_elements(page, listing_selectors[s])
             taken == IF elements = <<>> THEN <<>> ELSE take_cap(elements)
             current == element_loop(taken, 1, search_name, acc.current)
             next == [current |-> current,
                      queried |-> Append(acc.queried, listing_selectors[s]),
                      matched |-> Append(acc.matched, Len(elements)),
                      processed |-> Append(acc.processed, Len(taken)),
                      appended |-> Append(acc.appended,
                                          Len(current) - Len(acc.current))]
         IN  IF elements # <<>> /\ stop_after(current) THEN next
             ELSE selector_loop(page, search_name, s + 1, next)

\* Lines 291-419: the selector loop, then the removal of duplicate ids.
collect(page, search_name) ==
    LET acc == selector_loop(page, search_name, 1,
                   [current |-> <<>>, queried |-> <<>>, matched |-> <<>>,
                    processed |-> <<>>, appended |-> <<>>])
    IN  [listings |-> unique_listings(acc.current, 1, {}, <<>>),
         current |-> acc.current, queried |-> acc.queried,
         matched |-> acc.matched, processed |-> acc.processed,
         appended |-> acc.appended]

(***************************************************************************)
(* check_for_new_listings, lines 538-550: the detection loop and the       *)
(* update of the seen-set.                                                 *)
(***************************************************************************)
RECURSIVE detect_loop_Prepend(_, _, _, _, _)
detect_loop_Prepend(listings, k, seen, new, current_ids) ==
    IF k > Len(listings) THEN [new_listings |-> new, current_ids |-> current_ids]
    ELSE detect_loop_Prepend(listings, k + 1, seen,
                     IF listings[k].id \notin seen THEN <<listings[k]>> \o new ELSE new,
                     current_ids \cup {listings[k].id})

RECURSIVE detect_loop_SeenInLoop(_, _, _, _, _)
detect_loop_SeenInLoop(listings, k, seen, new, current_ids) ==
    IF k > Len(listings) THEN [new_listings |-> new, current_ids |-> current_ids]
    ELSE detect_loop_SeenInLoop(listings, k + 1, seen \cup {listings[k].id},
                     IF listings[k].id \notin seen THEN Append(new, listings[k]) ELSE new,
                     current_ids \cup {listings[k].id})

RECURSIVE detect_loop(_, _, _, _, _)
detect_loop(listings, k, seen, new, current_ids) ==
    IF k > Len(listings) THEN [new_listings |-> new, current_ids |-> current_ids]
    ELSE detect_loop(listings, k + 1, seen,
                     IF listings[k].id \notin seen THEN Append(new, listings[k]) ELSE new,
                     current_ids \cup {listings[k].id})

seen_update_Replace(seen, current_ids) == current_ids

seen_update(seen, current_ids) == seen \cup current_ids

(***************************************************************************)
(* State.                                                                  *)
(*   env, file                  what the process finds: the environment    *)
(*                              variables and the store file               *)
(*   pc, runs, lastExit         where the current run is, how many runs    *)
(*                              have started, how the last one ended       *)
(*   search_urls, seen_listings, driver    fields of AirbnbMonitorGitHub   *)
(*   i, all_listings            locals of get_listings                     *)
(*   current_listings, new_listings        locals of check_for_new_listings*)
(* History of the current run:                                             *)
(*   polled        per source polled, what get_listing_for_url did         *)
(*   detected      the detection loop has run                              *)
(*   saveResult    none | ok | open_failed | write_failed                  *)
(*   delivery      none | sent | failed                                    *)
(*   loaded, loadRaised, fileAtStart       what __init__ read              *)
(* History across runs:                                                    *)
(*   prev          the previous run's outcome                              *)
(*   unsent        ids of every notification whose delivery failed         *)
(*   missed        those of unsent whose run saved the store, since when   *)
(*                 every load has read the store                           *)
(*   everSaved     ids the store has held after a save (or held at first)  *)
(***************************************************************************)
VARIABLES env, file, pc, runs, lastExit,
          search_urls, seen_listings, driver,
          i, all_listings, current_listings, new_listings,
          polled, detected, saveResult, delivery,
          loaded, loadRaised, fileAtStart,
          prev, unsent, missed, everSaved,
          cpc, page, search_name, result, node, extracted,
          delays, loads, saves, digest

process == <<search_urls, seen_listings, driver, i, all_listings,
             current_listings, new_listings>>

history == <<polled, detected, saveResult, delivery, loaded, loadRaised, fileAtStart>>

across == <<prev, unsent, missed, everSaved>>

\* The collector taken on its own: one page or one node, and what
\* get_listing_for_url makes of it.
collector == <<cpc, page, search_name, result, node, extracted>>

\* Counted over the current run: the sleeps between sources, the calls of
\* load_seen_listings and of save_seen_listings; and the message
\* send_notification has built.
counted == <<delays, loads, saves, digest>>

vars == <<env, file, pc, runs, lastExit, process, history, across, collector,
          counted>>

NoRun == [exit |-> "none", aggIds |-> {}, newIds |-> {}, save |-> "none"]

NoPage == [cards |-> <<>>, divs |-> FALSE, anchors |-> <<>>, items |-> <<>>]

NoResult ==
    [listings |-> <<>>, current |-> <<>>, queried |-> <<>>, matched |-> <<>>,
     processed |-> <<>>, appended |-> <<>>]

NoExtract == [ok |-> FALSE, listing |-> <<>>]

NoDigest == [subject |-> 0, groups |-> <<>>]

\* No process is running and nothing of a run is in memory.
Resting ==
    /\ pc = "idle"
    /\ runs = 0
    /\ lastExit = "none"
    /\ search_urls = 0
    /\ seen_listings = {}
    /\ driver = FALSE
    /\ i = 1
    /\ all_listings = <<>>
    /\ current_listings = <<>>
    /\ new_listings = <<>>
    /\ polled = <<>>
    /\ detected = FALSE
    /\ saveResult = "none"
    /\ delivery = "none"
    /\ loaded = {}
    /\ loadRaised = FALSE
    /\ fileAtStart = file
    /\ prev = NoRun
    /\ unsent = {}
    /\ missed = {}
    /\ everSaved = FileIds(file)
    /\ delays = 0
    /\ loads = 0
    /\ saves = 0
    /\ digest = NoDigest

CollectorOff ==
    /\ cpc = "off"
    /\ page = NoPage
    /\ search_name = 1
    /\ result = NoResult
    /\ node = Node(<<>>, <<>>, <<>>)
    /\ extracted = NoExtract

Init ==
    /\ env \in [creds : BOOLEAN, urls : 0..MaxSources]
    /\ file \in Files
    /\ Resting
    /\ CollectorOff

\* A new process starts with nothing of the last one in memory.
FreshProcess ==
    /\ search_urls' = 0
    /\ seen_listings' = {}
    /\ driver' = FALSE
    /\ i' = 1
    /\ all_listings' = <<>>
    /\ current_listings' = <<>>
    /\ new_listings' = <<>>
    /\ polled' = <<>>
    /\ detected' = FALSE
    /\ saveResult' = "none"
    /\ delivery' = "none"
    /\ loaded' = {}
    /\ loadRaised' = FALSE
    /\ fileAtStart' = file
    /\ delays' = 0
    /\ loads' = 0
    /\ saves' = 0
    /\ digest' = NoDigest

Remember ==
    prev' = [exit |-> lastExit, aggIds |-> IdsOf(current_listings),
             newIds |-> IdsOf(new_listings), save |-> saveResult]

(***************************************************************************)
(* main(), lines 572-583: the two configuration checks.                    *)
(***************************************************************************)
\* missing_vars is non-empty: a delivery credential is not set.
missing_vars_None(e) == FALSE

missing_vars(e) == ~e.creds

\* not monitor.search_urls
no_search_urls(e) == e.urls = 0

(***************************************************************************)
(* main(): a required environment variable is missing.                     *)
(***************************************************************************)
MainMissingVars ==
    /\ pc = "idle" /\ runs < MaxRuns
    /\ missing_vars(env)
    /\ runs' = runs + 1
    /\ lastExit' = "missing_vars"
    /\ FreshProcess
    /\ Remember
    /\ UNCHANGED <<collector, env, file, pc, unsent, missed, everSaved>>

(***************************************************************************)
(* main(): the monitor is constructed (the URLs and the store are loaded)  *)
(* and no search URL is configured.                                        *)
(***************************************************************************)
MainNoUrls ==
    /\ pc = "idle" /\ runs < MaxRuns
    /\ ~missing_vars(env) /\ no_search_urls(env)
    /\ LET l == load_seen_listings(file)
       IN  /\ runs' = runs + 1
           /\ search_urls' = 0
           /\ seen_listings' = l.seen
           /\ loaded' = l.seen
           /\ loadRaised' = l.raised
           /\ lastExit' = IF l.raised THEN "exception" ELSE "no_urls"
           /\ missed' = IF l.fallback \/ l.raised THEN {} ELSE missed
    /\ driver' = FALSE /\ i' = 1 /\ all_listings' = <<>>
    /\ current_listings' = <<>> /\ new_listings' = <<>>
    /\ polled' = <<>> /\ detected' = FALSE
    /\ saveResult' = "none" /\ delivery' = "none"
    /\ fileAtStart' = file
    /\ Remember
    /\ delays' = 0 /\ loads' = 1 /\ saves' = 0 /\ digest' = NoDigest
    /\ UNCHANGED <<collector, env, file, pc, unsent, everSaved>>

(***************************************************************************)
(* main(): the monitor is constructed and run_once() begins                *)
(* check_for_new_listings(), which enters get_listings().                  *)
(***************************************************************************)
MainStart ==
    /\ pc = "idle" /\ runs < MaxRuns
    /\ ~missing_vars(env) /\ ~no_search_urls(env)
    /\ LET l == load_seen_listings(file)
       IN  /\ runs' = runs + 1
           /\ search_urls' = env.urls
           /\ seen_listings' = l.seen
           /\ loaded' = l.seen
           /\ loadRaised' = l.raised
           /\ lastExit' = IF l.raised THEN "exception" ELSE "running"
           /\ pc' = IF l.raised THEN "idle" ELSE "polling"
           /\ missed' = IF l.fallback \/ l.raised THEN {} ELSE missed
    /\ driver' = FALSE /\ i' = 1 /\ all_listings' = <<>>
    /\ current_listings' = <<>> /\ new_listings' = <<>>
    /\ polled' = <<>> /\ detected' = FALSE
    /\ saveResult' = "none" /\ delivery' = "none"
    /\ fileAtStart' = file
    /\ Remember
    /\ delays' = 0 /\ loads' = 1 /\ saves' = 0 /\ digest' = NoDigest
    /\ UNCHANGED <<collector, env, file, unsent, everSaved>>

(***************************************************************************)
(* get_listings: the loop over the search URLs.  After source k of n the   *)
(* loop sleeps if another source follows, and returns otherwise.           *)
(***************************************************************************)
\* The loop left after its first pass.
next_source_Return(k, n) == "collected"

next_source(k, n) == IF k < n THEN "delay" ELSE "collected"

\* get_listing_for_url returns [] from its failure paths, so the loop goes on.
get_listing_failed_Raise(k, n) == "finally"

get_listing_failed(k, n) == next_source(k, n)

Extend(listings, status, next) ==
    /\ all_listings' = all_listings \o listings
    /\ polled' = Append(polled, [status |-> status, listings |-> listings])
    /\ pc' = next
    /\ UNCHANGED <<collector, counted, env, file, runs, lastExit, search_urls, seen_listings, i,
                   current_listings, new_listings, detected, saveResult, delivery,
                   loaded, loadRaised, fileAtStart, across>>

\* get_listing_for_url: there is no driver and setup_driver() returns False.
GetListingSetupFails ==
    /\ pc = "polling"
    /\ ~driver
    /\ driver' = FALSE
    /\ Extend(<<>>, "setup_driver", get_listing_failed(i, search_urls))

\* get_listing_for_url: driver.get (or a later call in the try block) raises.
GetListingRenderFails ==
    /\ pc = "polling"
    /\ driver' = TRUE
    /\ Extend(<<>>, "render", get_listing_failed(i, search_urls))

\* get_listing_for_url: no wait selector is present within the timeout.
GetListingNotReady ==
    /\ pc = "polling"
    /\ driver' = TRUE
    /\ Extend(<<>>, "readiness", get_listing_failed(i, search_urls))

\* get_listing_for_url: the page is rendered and its nodes are extracted.
GetListingOk ==
    /\ pc = "polling"
    /\ driver' = TRUE
    /\ \E nodes \in SeqsUpTo(Ids, MaxPerPage) :
          Extend(unique_listings(Extracted(nodes, i), 1, {}, <<>>), "ok",
                 next_source(i, search_urls))

\* time.sleep: the count of the sleeps of the run goes up by one.
sleep_Skip(d) == d

sleep(d) == d + 1

\* get_listings: time.sleep(10) between two sources.
Delay ==
    /\ pc = "delay"
    /\ delays' = sleep(delays)
    /\ i' = i + 1
    /\ pc' = "polling"
    /\ UNCHANGED <<collector, loads, saves, digest, env, file, runs, lastExit, search_urls, seen_listings, driver,
                   all_listings, current_listings, new_listings, history, across>>

(***************************************************************************)
(* check_for_new_listings after get_listings has returned: nothing found,  *)
(* or the detection loop and the update of the seen-set.                   *)
(***************************************************************************)
after_update_SkipSave == "notify"

after_update == "save"

\* if not current_listings: return
nothing_found_Never(listings) == FALSE

nothing_found(listings) == listings = <<>>

NothingFound ==
    /\ pc = "collected"
    /\ nothing_found(all_listings)
    /\ current_listings' = all_listings
    /\ pc' = "finally"
    /\ UNCHANGED <<collector, counted, env, file, runs, lastExit, search_urls, seen_listings, driver,
                   i, all_listings, new_listings, history, across>>

Detect ==
    /\ pc = "collected"
    /\ ~nothing_found(all_listings)
    /\ current_listings' = all_listings
    /\ LET d == detect_loop(all_listings, 1, seen_listings, <<>>, {})
       IN  /\ new_listings' = d.new_listings
           /\ seen_listings' = seen_update(seen_listings, d.current_ids)
    /\ detected' = TRUE
    /\ pc' = after_update
    /\ UNCHANGED <<collector, counted, env, file, runs, lastExit, search_urls, driver, i, all_listings,
                   polled, saveResult, delivery, loaded, loadRaised, fileAtStart,
                   across>>

(***************************************************************************)
(* save_seen_listings: open(..., 'w') and json.dump, either of which can   *)
(* raise; the except clause logs.                                          *)
(***************************************************************************)
SaveOpen ==
    /\ pc = "save"
    /\ file' = Truncated
    /\ pc' = "save_write"
    /\ saves' = saves + 1
    /\ UNCHANGED <<collector, delays, loads, digest, env, runs, lastExit, process, history, across>>

SaveOpenFails ==
    /\ pc = "save"
    /\ saveResult' = "open_failed"
    /\ pc' = save_except
    /\ saves' = saves + 1
    /\ UNCHANGED <<collector, delays, loads, digest, env, file, runs, lastExit, process, polled, detected, delivery,
                   loaded, loadRaised, fileAtStart, across>>

SaveWrite ==
    /\ pc = "save_write"
    /\ \E order \in Orders(seen_listings) : file' = save_data(seen_listings, order)
    /\ saveResult' = "ok"
    /\ everSaved' = everSaved \cup FileIds(file')
    /\ pc' = "notify"
    /\ UNCHANGED <<collector, counted, env, runs, lastExit, process, polled, detected, delivery,
                   loaded, loadRaised, fileAtStart, prev, unsent, missed>>

SaveWriteFails ==
    /\ pc = "save_write"
    /\ saveResult' = "write_failed"
    /\ pc' = save_except
    /\ UNCHANGED <<collector, counted, env, file, runs, lastExit, process, polled, detected, delivery,
                   loaded, loadRaised, fileAtStart, across>>

(***************************************************************************)
(* check_for_new_listings, lines 553-558, and send_notification.           *)
(***************************************************************************)
\* send_notification, lines 454-474: the subject carries the number of new
\* listings; listings_by_search is a dict from search name to list, which
\* keeps its keys in insertion order.
group_add_Overwrite(groups, listing) ==
    IF \E g \in DOMAIN groups : groups[g].search_name = listing.search_name
    THEN [g \in DOMAIN groups |->
             IF groups[g].search_name = listing.search_name
             THEN [groups[g] EXCEPT !.listings = <<listing>>]
             ELSE groups[g]]
    ELSE Append(groups, [search_name |-> listing.search_name,
                         listings |-> <<listing>>])

group_add(groups, listing) ==
    IF \E g \in DOMAIN groups : groups[g].search_name = listing.search_name
    THEN [g \in DOMAIN groups |->
             IF groups[g].search_name = listing.search_name
             THEN [groups[g] EXCEPT !.listings = Append(@, listing)]
             ELSE groups[g]]
    ELSE Append(groups, [search_name |-> listing.search_name,
                         listings |-> <<listing>>])

RECURSIVE listings_by_search(_, _, _)
listings_by_search(new, k, groups) ==
    IF k > Len(new) THEN groups
    ELSE listings_by_search(new, k + 1, group_add(groups, new[k]))

build_message(new) ==
    [subject |-> Len(new), groups |-> listings_by_search(new, 1, <<>>)]

NoNotification ==
    /\ pc = "notify"
    /\ new_listings = <<>>
    /\ pc' = "finally"
    /\ UNCHANGED <<collector, counted, env, file, runs, lastExit, process, history, across>>

SendNotification ==
    /\ pc = "notify"
    /\ new_listings # <<>>
    /\ delivery' = "sent"
    /\ pc' = "finally"
    /\ digest' = build_message(new_listings)
    /\ UNCHANGED <<collector, delays, loads, saves, env, file, runs, lastExit, process, polled, detected, saveResult,
                   loaded, loadRaised, fileAtStart, across>>

\* smtplib raises; the except clause of send_notification logs.
SendNotificationFails ==
    /\ pc = "notify"
    /\ new_listings # <<>>
    /\ delivery' = "failed"
    /\ unsent' = unsent \cup IdsOf(new_listings)
    /\ missed' = IF saveResult = "ok" THEN missed \cup IdsOf(new_listings) ELSE missed
    /\ pc' = "finally"
    /\ digest' = build_message(new_listings)
    /\ UNCHANGED <<collector, delays, loads, saves, env, file, runs, lastExit, process, polled, detected, saveResult,
                   loaded, loadRaised, fileAtStart, prev, everSaved>>

\* run_once: the finally clause quits the driver; main() returns.
RunOnceFinally ==
    /\ pc = "finally"
    /\ driver' = FALSE
    /\ lastExit' = "completed"
    /\ pc' = "idle"
    /\ UNCHANGED <<collector, counted, env, file, runs, search_urls, seen_listings, i, all_listings,
                   current_listings, new_listings, history, across>>

(***************************************************************************)
(* The process is killed (a runner timeout, a cancelled job, a power       *)
(* loss) at any point of a run; what it held in memory is gone.            *)
(***************************************************************************)
Running ==
    {"polling", "delay", "collected", "save", "save_write", "notify", "finally",
     "testing", "test_delay"}

Crash ==
    /\ pc \in Running
    /\ pc' = "idle"
    /\ lastExit' = "killed"
    /\ search_urls' = 0 /\ seen_listings' = {} /\ driver' = FALSE /\ i' = 1
    /\ all_listings' = <<>> /\ current_listings' = <<>> /\ new_listings' = <<>>
    /\ polled' = <<>> /\ detected' = FALSE
    /\ saveResult' = "none" /\ delivery' = "none"
    /\ loaded' = {} /\ loadRaised' = FALSE
    /\ delays' = 0 /\ loads' = 0 /\ saves' = 0 /\ digest' = NoDigest
    /\ UNCHANGED <<collector, env, file, runs, fileAtStart, across>>

Next ==
    \/ MainMissingVars
    \/ MainNoUrls
    \/ MainStart
    \/ GetListingSetupFails
    \/ GetListingRenderFails
    \/ GetListingNotReady
    \/ GetListingOk
    \/ Delay
    \/ NothingFound
    \/ Detect
    \/ SaveOpen
    \/ SaveOpenFails
    \/ SaveWrite
    \/ SaveWriteFails
    \/ NoNotification
    \/ SendNotification
    \/ SendNotificationFails
    \/ RunOnceFinally
    \/ Crash

Spec == Init /\ [][Next]_vars

(***************************************************************************)
(* The URL validation script, airbnb-monitor-github.py.  Its main() and    *)
(* constructor are those of the monitor; its check_for_new_listings calls  *)
(* test_page_load for each search URL in turn and sleeps after each call,  *)
(* the last one included.  It keeps no records, never saves and never      *)
(* notifies.                                                               *)
(***************************************************************************)
ValidateStart ==
    /\ pc = "idle" /\ runs < MaxRuns
    /\ ~missing_vars(env) /\ ~no_search_urls(env)
    /\ LET l == load_seen_listings(file)
       IN  /\ runs' = runs + 1
           /\ search_urls' = env.urls
           /\ seen_listings' = l.seen
           /\ loaded' = l.seen
           /\ loadRaised' = l.raised
           /\ lastExit' = IF l.raised THEN "exception" ELSE "running"
           /\ pc' = IF l.raised THEN "idle" ELSE "testing"
           /\ missed' = IF l.fallback \/ l.raised THEN {} ELSE missed
    /\ driver' = FALSE /\ i' = 1 /\ all_listings' = <<>>
    /\ current_listings' = <<>> /\ new_listings' = <<>>
    /\ polled' = <<>> /\ detected' = FALSE
    /\ saveResult' = "none" /\ delivery' = "none"
    /\ fileAtStart' = file
    /\ Remember
    /\ delays' = 0 /\ loads' = 1 /\ saves' = 0 /\ digest' = NoDigest
    /\ UNCHANGED <<collector, env, file, unsent, everSaved>>

Tested(status) ==
    /\ polled' = Append(polled, [status |-> status, listings |-> <<>>])
    /\ pc' = "test_delay"
    /\ UNCHANGED <<collector, counted, env, file, runs, lastExit, search_urls,
                   seen_listings, i, all_listings, current_listings, new_listings,
                   detected, saveResult, delivery, loaded, loadRaised, fileAtStart,
                   across>>

\* test_page_load: there is no driver and setup_driver() returns False.
TestPageLoadSetupFails ==
    /\ pc = "testing"
    /\ ~driver
    /\ driver' = FALSE
    /\ Tested("setup_driver")

\* test_page_load: driver.get (or a later call in the try block) raises.
TestPageLoadRaises ==
    /\ pc = "testing"
    /\ driver' = TRUE
    /\ Tested("render")

\* test_page_load: the page holds no /rooms/ link.
TestPageLoadNoLinks ==
    /\ pc = "testing"
    /\ driver' = TRUE
    /\ Tested("no_links")

TestPageLoadOk ==
    /\ pc = "testing"
    /\ driver' = TRUE
    /\ Tested("ok")

\* check_for_new_listings: time.sleep(5) after each test, then the next URL
\* or the final report.
TestDelay ==
    /\ pc = "test_delay"
    /\ delays' = sleep(delays)
    /\ i' = IF i < search_urls THEN i + 1 ELSE i
    /\ pc' = IF i < search_urls THEN "testing" ELSE "finally"
    /\ UNCHANGED <<collector, loads, saves, digest, env, file, runs, lastExit,
                   search_urls, seen_listings, driver, all_listings,
                   current_listings, new_listings, history, across>>

NextValidate ==
    \/ ValidateStart
    \/ TestPageLoadSetupFails
    \/ TestPageLoadRaises
    \/ TestPageLoadNoLinks
    \/ TestPageLoadOk
    \/ TestDelay

\* Either script is started at each run, against the same environment and
\* store.
SpecScripts == Init /\ [][Next \/ NextValidate]_vars

(***************************************************************************)
(* get_listing_for_url on one rendered page (lines 291-419), taken on its  *)
(* own.  A selector's match is a run of equal filler nodes followed by the *)
(* nodes written out: the filler moves the written nodes to either side of *)
(* the slice elements[:20].                                                *)
(***************************************************************************)
Filled(count, n, tail) == [k \in 1..count |-> n] \o tail

PageNodes == {Node(h, t, <<>>) : h \in Hrefs, t \in SeqsUpTo(TitleTexts \ {<<>>}, 1)}

Links == {Node(h, <<>>, <<>>) : h \in Hrefs \ {<<>>}}

Fillers == {Node(<<ShortId>>, <<>>, <<>>), Node(<<MaxIds>>, <<>>, <<>>)}

Cards ==
    SeqsUpTo(PageNodes, MaxNodes)
    \cup {Filled(c, n, tail) : c \in {NodeCap - 1, NodeCap}, n \in Fillers,
                              tail \in SeqsUpTo(PageNodes, MaxNodes)}

Pages ==
    [cards : Cards, divs : BOOLEAN, anchors : SeqsUpTo(Links, 1),
     items : SeqsUpTo(PageNodes, 1)]

InitCollect ==
    /\ env = [creds |-> FALSE, urls |-> 0]
    /\ file = File("absent", <<>>)
    /\ Resting
    /\ cpc = "page"
    /\ page \in Pages
    /\ search_name \in 1..MaxSources
    /\ result = NoResult
    /\ node = Node(<<>>, <<>>, <<>>)
    /\ extracted = NoExtract

Collect ==
    /\ cpc = "page"
    /\ cpc' = "collected"
    /\ result' = collect(page, search_name)
    /\ UNCHANGED <<env, file, pc, runs, lastExit, process, history, across,
                   counted, page, search_name, node, extracted>>

SpecCollect == InitCollect /\ [][Collect]_vars

(***************************************************************************)
(* The extraction of one element (lines 310-400), taken on its own.        *)
(***************************************************************************)
InitExtract ==
    /\ env = [creds |-> FALSE, urls |-> 0]
    /\ file = File("absent", <<>>)
    /\ Resting
    /\ cpc = "node"
    /\ page = NoPage
    /\ search_name \in 1..MaxSources
    /\ result = NoResult
    /\ node \in Nodes
    /\ extracted = NoExtract

Extract ==
    /\ cpc = "node"
    /\ cpc' = "extracted"
    /\ extracted' = extract(node, search_name)
    /\ UNCHANGED <<env, file, pc, runs, lastExit, process, history, across,
                   counted, page, search_name, result, node>>

SpecExtract == InitExtract /\ [][Extract]_vars

(***************************************************************************)
(* Properties.                                                             *)
(***************************************************************************)
RECURSIVE Flatten(_)
Flatten(p) == IF p = <<>> THEN <<>> ELSE p[1].listings \o Flatten(Tail(p))

AbsentFrom(listings, seen) ==
    LET absent(r) == r.id \notin seen IN SelectSeq(listings, absent)

SaveFailed == saveResult \in {"open_failed", "write_failed"}

RunCompleted == pc = "idle" /\ lastExit = "completed"

\* C1: once the detection loop has run, new_listings is exactly the
\* subsequence of the aggregate (current_listings, which is what get_listings
\* returned) made of the records whose id was not in the seen-set loaded at
\* the start of the run: one entry per such record, in the aggregate's order.
C1_NewListingsExact ==
    detected =>
        /\ current_listings = all_listings
        /\ new_listings = AbsentFrom(current_listings, loaded)

\* A run whose aggregate holds a seen record followed by two new records,
\* the two of them from different sources.
C1_Witness ==
    /\ detected
    /\ Len(new_listings) >= 2
    /\ new_listings[1].search_name # new_listings[2].search_name
    /\ current_listings[1].id \in loaded

\* C2: after change detection the in-memory seen-set is the union of the
\* seen-set loaded at run start and the ids of all current records.
C2_SeenIsUnion ==
    detected => seen_listings = loaded \cup IdsOf(current_listings)

\* A run that loaded an id it did not observe, observed an id it had loaded
\* and observed an id it had not.
C2_Witness ==
    /\ detected
    /\ loaded \ IdsOf(current_listings) # {}
    /\ loaded \cap IdsOf(current_listings) # {}
    /\ IdsOf(current_listings) \ loaded # {}

\* C3 as stated: when two completed runs follow each other and the second
\* aggregate equals the first (here: whenever it holds the same ids, equal
\* records included), the second run finds nothing new and sends no
\* notification.
C3_Idempotent ==
    (RunCompleted /\ prev.exit = "completed" /\ IdsOf(current_listings) = prev.aggIds)
        => (new_listings = <<>> /\ delivery = "none")

\* C3 amended: the same, for a first run whose save succeeded.
C3_IdempotentAfterSave ==
    (RunCompleted /\ prev.exit = "completed" /\ prev.save = "ok"
        /\ IdsOf(current_listings) = prev.aggIds)
        => (new_listings = <<>> /\ delivery = "none")

\* The second of two runs with equal aggregates, the first of which found
\* new listings and saved them.
C3_Witness ==
    /\ RunCompleted /\ prev.exit = "completed" /\ prev.save = "ok"
    /\ IdsOf(current_listings) = prev.aggIds
    /\ prev.newIds # {}
    /\ saveResult = "ok"

\* C4 as stated: when delivery fails the run still completes, the listings
\* of the failed notification are in the persisted store, and no later run
\* reports any of them again.
C4_FailedDeliveryNeverRepeats ==
    /\ delivery = "failed" =>
          /\ pc \in {"finally", "idle"}
          /\ IdsOf(new_listings) \subseteq FileIds(file)
    /\ (detected /\ delivery = "none") => IdsOf(new_listings) \cap unsent = {}

\* C4 amended: when delivery fails the run still completes and its save has
\* already been attempted; if that save succeeded the listings of the failed
\* notification are in the persisted store, and no later run reports any of
\* them as long as every load since then has read the store (no fallback to
\* the empty set).
C4_FailedDeliveryAfterSave ==
    /\ delivery = "failed" =>
          /\ pc \in {"finally", "idle"}
          /\ saveResult # "none"
          /\ saveResult = "ok" => IdsOf(new_listings) \subseteq FileIds(file)
    /\ (detected /\ delivery = "none") => IdsOf(new_listings) \cap missed = {}

\* A later run that observes a listing of a failed notification again, next
\* to a new one, and reports only the new one.
C4_Witness ==
    /\ detected /\ delivery = "none"
    /\ prev.exit = "completed"
    /\ missed \cap IdsOf(current_listings) # {}
    /\ new_listings # <<>>

\* C5: the store file always holds either the complete content it had when
\* the run started or a complete new state (a wrapped document that keeps
\* what the prior state held); so a run killed before the save has completed
\* leaves the prior content.
C5_NoPartialWrites ==
    \/ file = fileAtStart
    \/ /\ file.kind = "wrapped"
       /\ FileIds(fileAtStart) \subseteq FileIds(file)

\* C6: a failed save lets the run go on to the notification step and
\* complete, and the next run classifies as new every listing the failed run
\* classified as new that is still in the aggregate.
C6_SaveFailureRedetects ==
    /\ SaveFailed => pc \in {"notify", "finally", "idle"}
    /\ (SaveFailed /\ pc \in {"finally", "idle"} /\ new_listings # <<>>)
          => delivery # "none"
    /\ (SaveFailed /\ pc = "idle") => lastExit = "completed"
    /\ (detected /\ prev.exit = "completed"
            /\ prev.save \in {"open_failed", "write_failed"})
          => \A k \in DOMAIN current_listings :
                current_listings[k].id \in prev.newIds
                    => current_listings[k] \in Range(new_listings)

\* The run after one whose save could not open the file: it observes again a
\* listing the failed run had found new, next to one that was already seen.
C6_Witness ==
    /\ detected /\ prev.exit = "completed" /\ prev.save = "open_failed"
    /\ prev.newIds \cap IdsOf(current_listings) # {}
    /\ Len(new_listings) < Len(current_listings)

\* C7: load_seen_listings never raises, returns a set of ids, and returns
\* the empty set when the file is absent, unreadable or not valid JSON.
C7_LoadNeverFails ==
    /\ ~loadRaised
    /\ lastExit # "exception"
    /\ loaded \subseteq Ids
    /\ lastExit \in {"running", "completed", "no_urls"} =>
          /\ fileAtStart.kind \in {"absent", "unreadable", "invalid"} => loaded = {}
          /\ fileAtStart.kind \in ContentKinds => loaded = Range(fileAtStart.items)

\* A run that started on a store file cut short by the failed save of the
\* run before it.
C7_Witness ==
    /\ pc = "polling"
    /\ fileAtStart.kind = "invalid"
    /\ prev.save = "write_failed"
    /\ loaded = {}

\* C8: a run that loads a legacy or wrapped store, observes no id the store
\* does not hold and saves, leaves the set of ids held by the file unchanged,
\* and a load of the saved file returns the set the first load returned.
C8_RoundTrip ==
    (saveResult = "ok" /\ fileAtStart.kind \in ContentKinds
        /\ IdsOf(current_listings) \subseteq FileIds(fileAtStart))
        => /\ FileIds(file) = FileIds(fileAtStart)
           /\ load_seen_listings(file) = load_seen_listings(fileAtStart)
           /\ load_seen_listings(file).seen = loaded

\* A legacy list of two ids, rewritten as a wrapped object that lists them
\* in the other order.
C8_Witness ==
    /\ saveResult = "ok"
    /\ fileAtStart.kind = "list"
    /\ Cardinality(FileIds(fileAtStart)) = 2
    /\ IdsOf(current_listings) \subseteq FileIds(fileAtStart)
    /\ file.kind = "wrapped"
    /\ file.items[1] # fileAtStart.items[1]

\* C9: after a completed run that saved the store, the persisted ids hold
\* every id the store held after any earlier save.
C9_PersistedOnlyGrows ==
    (RunCompleted /\ saveResult = "ok") => everSaved \subseteq FileIds(file)

AnySourceFailed == \E k \in DOMAIN polled : polled[k].status # "ok"

PollingOver ==
    pc \in {"collected", "save", "save_write", "notify", "finally"} \/ RunCompleted

\* C10 as stated: a failed source contributes nothing, every source is still
\* polled, the aggregate is the concatenation of the successful sources'
\* records, and the run persists the seen-set update and sends a notification
\* if a record is new.
C10_FailureIsolation ==
    /\ \A k \in DOMAIN polled : polled[k].status # "ok" => polled[k].listings = <<>>
    /\ all_listings = Flatten(polled)
    /\ PollingOver => Len(polled) = search_urls
    /\ (RunCompleted /\ AnySourceFailed /\ all_listings # <<>>) =>
          /\ FileIds(file) = loaded \cup IdsOf(all_listings)
          /\ new_listings # <<>> => delivery = "sent"

\* C10 amended: the same, except that the run still executes the save step
\* and the notification step: the update is persisted when the save
\* succeeds, and a delivery is attempted if a record is new.
C10_FailureIsolationSteps ==
    /\ \A k \in DOMAIN polled : polled[k].status # "ok" => polled[k].listings = <<>>
    /\ all_listings = Flatten(polled)
    /\ PollingOver => Len(polled) = search_urls
    /\ (RunCompleted /\ AnySourceFailed /\ all_listings # <<>>) =>
          /\ saveResult # "none"
          /\ saveResult = "ok" => FileIds(file) = loaded \cup IdsOf(all_listings)
          /\ new_listings # <<>> => delivery # "none"

\* A completed run whose first source failed and whose second source
\* brought a new listing, which was saved and notified.
C10_Witness ==
    /\ RunCompleted
    /\ Len(polled) = 2
    /\ polled[1].status # "ok" /\ polled[2].status = "ok"
    /\ new_listings # <<>>
    /\ saveResult = "ok" /\ delivery = "sent"
    /\ loaded # {}


(***************************************************************************)
(* Properties of the collector.                                            *)
(***************************************************************************)
Collected == cpc = "collected"

\* The elements the extraction loop went through for the selector queried
\* k-th.
ProcessedOf(k) ==
    LET elements == find_elements(page, result.queried[k])
    IN  SubSeq(elements, 1, result.processed[k])

\* The selectors, by position in queried, whose elements gave records.
Yielding == {k \in DOMAIN result.appended : result.appended[k] > 0}

\* C11: within one source's result every id occurs at most once, and the
\* record kept for an id is the one extracted from the first element, in
\* processing order, that carries the id; no id extracted is dropped.
C11_FirstOccurrenceKept ==
    Collected =>
        /\ \A a, b \in DOMAIN result.listings :
               result.listings[a].id = result.listings[b].id => a = b
        /\ IdsOf(result.listings) = IdsOf(result.current)
        /\ \A a \in DOMAIN result.listings : \E k \in Yielding :
               LET elements == ProcessedOf(k)
               IN  \E j \in DOMAIN elements :
                       /\ extract(elements[j], search_name).ok
                       /\ extract(elements[j], search_name).listing = result.listings[a]
                       /\ \A j2 \in 1..(j - 1) :
                              elements[j2].href # <<result.listings[a].id>>

\* Two elements of the selector used carry one id with different titles.
C11_Witness ==
    /\ Collected
    /\ Len(result.current) > Len(result.listings)
    /\ \E a, b \in DOMAIN result.current :
           /\ a < b
           /\ result.current[a].id = result.current[b].id
           /\ result.current[a].name # result.current[b].name

\* The selectors queried are the first ones of listing_selectors, in order.
QueriedInOrder ==
    /\ Len(result.queried) \in 1..Len(listing_selectors)
    /\ \A k \in DOMAIN result.queried : result.queried[k] = listing_selectors[k]

\* Every record returned is the extraction of an element the loop went
\* through for the selector queried k-th.
RecordsFrom(k) ==
    \A a \in DOMAIN result.listings : \E j \in DOMAIN ProcessedOf(k) :
        /\ extract(ProcessedOf(k)[j], search_name).ok
        /\ extract(ProcessedOf(k)[j], search_name).listing = result.listings[a]

\* C12 as stated: selectors are tried in the fixed order, and once a selector
\* has matched at least one node no later selector is queried, whether or not
\* its nodes gave a valid record; every record comes from that selector.
C12_FirstMatchExclusive ==
    Collected =>
        /\ QueriedInOrder
        /\ \A k \in DOMAIN result.queried :
               result.matched[k] > 0 =>
                   k = Len(result.queried) /\ RecordsFrom(k)

\* C12 amended: selectors are tried in the fixed order; a selector whose
\* nodes give no valid record is followed by the next one, and the first
\* selector that gives a valid record is the last one queried and the only
\* one whose records are returned.
C12_FirstYieldExclusive ==
    Collected =>
        /\ QueriedInOrder
        /\ \A k \in DOMAIN result.queried :
               IF result.appended[k] > 0
               THEN k = Len(result.queried) /\ RecordsFrom(k)
               ELSE k = Len(listing_selectors) \/ k < Len(result.queried)
        /\ Yielding = {} => result.listings = <<>>

\* The first selector matched nodes that gave no record and a later selector
\* gave the records returned.
C12_Witness ==
    /\ Collected
    /\ result.matched[1] > 0
    /\ result.appended[1] = 0
    /\ result.listings # <<>>

RECURSIVE SumSeq(_)
SumSeq(q) == IF q = <<>> THEN 0 ELSE q[1] + SumSeq(Tail(q))

\* C13 as stated: in one call the collector processes at most 20 matched
\* nodes of the page, counted over all selectors, and returns at most 20
\* records.
C13_CapPerPage ==
    Collected =>
        /\ SumSeq(result.processed) <= NodeCap
        /\ Len(result.listings) <= NodeCap

\* C13 amended: of each selector's match the collector processes the first
\* 20 nodes and no more, and one call returns at most 20 records.
C13_CapPerSelector ==
    Collected =>
        /\ \A k \in DOMAIN result.processed :
               result.processed[k] = Min(result.matched[k], NodeCap)
        /\ Len(result.current) <= NodeCap
        /\ Len(result.listings) <= NodeCap

\* A selector matched more than 20 nodes and its first 20 each gave a record.
C13_Witness ==
    /\ Collected
    /\ \E k \in DOMAIN result.matched : result.matched[k] > NodeCap
    /\ Len(result.current) = NodeCap

(***************************************************************************)
(* Properties of the extraction of one element.                            *)
(***************************************************************************)
ExtractedNode == cpc = "extracted"

\* The element has a /rooms/ link whose id passes the length test.
UsableLink == node.href # <<>> /\ node.href[1] \in Ids

\* No price candidate of the element is a non-empty text with a currency
\* marker.
NoPriceMatch ==
    \A k \in DOMAIN node.prices :
        node.prices[k] = <<>> \/ ~has_currency(node.prices[k])

\* The name of the record is the first non-empty title text, or the
\* placeholder made of the id when there is none.
TitleAsUsual ==
    \/ \E k \in DOMAIN node.titles :
           /\ node.titles[k] # <<>>
           /\ \A j \in 1..(k - 1) : node.titles[j] = <<>>
           /\ extracted.listing.name = Str(node.titles[k])
    \/ /\ \A k \in DOMAIN node.titles : node.titles[k] = <<>>
       /\ extracted.listing.name = Str(<<"Airbnb", "Listing", node.href[1]>>)

C16_ConfigErrorsAbort ==
    (~env.creds \/ env.urls = 0) =>
        /\ pc = "idle"
        /\ ~driver
        /\ polled = <<>> /\ all_listings = <<>>
        /\ saveResult = "none" /\ file = fileAtStart /\ everSaved = FileIds(file)
        /\ delivery = "none"
        /\ lastExit \in {"none", "missing_vars", "no_urls", "exception"}

\* A process with search URLs and a store holding ids has ended on the
\* credential check.
C16_Witness ==
    /\ ~env.creds /\ env.urls > 0
    /\ lastExit = "missing_vars"
    /\ FileIds(file) # {}

\* A source is being rendered, or a sleep is under way.
Rendering == pc \in {"polling", "testing"}

Sleeping == pc \in {"delay", "test_delay"}

\* C17: sources are polled one at a time in configured order, the render of
\* source i starts only when the calls for the i - 1 sources before it have
\* returned and i - 1 delays have elapsed, and between two consecutive
\* renders there is exactly one delay, whether or not the earlier source
\* failed.
C17_SequentialPaced ==
    /\ Rendering =>
           /\ i \in 1..search_urls
           /\ Len(polled) = i - 1
           /\ delays = i - 1
    /\ Sleeping =>
           /\ i \in 1..search_urls
           /\ Len(polled) = i
           /\ delays = i - 1
    /\ (Len(polled) > 0 /\ ~Rendering /\ ~Sleeping) =>
           /\ Len(polled) = search_urls
           /\ delays \in {Len(polled) - 1, Len(polled)}
    /\ \A k \in DOMAIN polled : \A a \in DOMAIN polled[k].listings :
           polled[k].listings[a].search_name = k

\* The second source is about to be rendered after the first one failed.
C17_Witness ==
    /\ Rendering
    /\ i = MaxSources
    /\ polled[1].status # "ok"
    /\ delays = MaxSources - 1

\* The records of a list that carry one search name, in the order of the list.
OfSearch(listings, name) ==
    LET Named(x) == x.search_name = name
    IN  SelectSeq(listings, Named)

RECURSIVE GroupSizes(_)
GroupSizes(groups) ==
    IF groups = <<>> THEN 0
    ELSE Len(groups[1].listings) + GroupSizes(Tail(groups))

\* C18: the message built for a delivery attempt has one group per search
\* name among the new records, in source order; a group holds the new
\* records of its search in their order in the new list, so every new record
\* is in exactly one group; the count in the subject is the number of records
\* in the groups.
C18_DigestGrouping ==
    delivery # "none" =>
        /\ \A g, h \in DOMAIN digest.groups :
               g < h => digest.groups[g].search_name < digest.groups[h].search_name
        /\ \A g \in DOMAIN digest.groups :
               /\ digest.groups[g].listings # <<>>
               /\ digest.groups[g].listings =
                      OfSearch(new_listings, digest.groups[g].search_name)
        /\ \A a \in DOMAIN new_listings : \E g \in DOMAIN digest.groups :
               digest.groups[g].search_name = new_listings[a].search_name
        /\ digest.subject = Len(new_listings)
        /\ digest.subject = GroupSizes(digest.groups)

\* A message with two groups, one of them with two records, has been sent.
C18_Witness ==
    /\ delivery = "sent"
    /\ Len(digest.groups) = MaxSources
    /\ \E g \in DOMAIN digest.groups : Len(digest.groups[g].listings) = MaxPerPage

\* A run has passed the configuration checks and built the monitor.
PassedChecks == pc \in Running \/ lastExit = "completed"

\* C19 as stated: a run that passes the configuration checks reads the store
\* once and, by its end, has written it once.
C19_ReadOnceWrittenOnce ==
    /\ PassedChecks => loads = 1
    /\ RunCompleted => saves = 1

\* C19 amended: a run that passes the configuration checks reads the store
\* once, before any source is polled; it calls save_seen_listings at most
\* once, only after every source has been polled and the detection loop has
\* run; a completed run has called it once if its aggregate held a record
\* and not at all if the aggregate was empty; the file is only changed by
\* that one call.
C19_ReadOnceSavedAtMostOnce ==
    /\ PassedChecks => loads = 1
    /\ saves \in {0, 1}
    /\ saves = 1 => detected /\ Len(polled) = search_urls /\ loads = 1
    /\ RunCompleted => (saves = 1 <=> all_listings # <<>>)
    /\ (PassedChecks /\ saves = 0) => file = fileAtStart /\ saveResult = "none"

\* A run over two sources, the first of which gave no record, has completed
\* with the store written.
C19_Witness ==
    /\ RunCompleted
    /\ search_urls = MaxSources
    /\ polled[1].listings = <<>>
    /\ saves = 1 /\ saveResult = "ok"
    /\ file # fileAtStart

\* Every source has been polled and none gave a record.
EmptyAggregate ==
    /\ pc \in {"collected", "finally", "idle"}
    /\ search_urls > 0
    /\ Len(polled) = search_urls
    /\ all_listings = <<>>

\* C20: from the end of polling on, a run whose aggregate is empty leaves the
\* store file and the seen-set in memory as they were loaded, runs no
\* detection, calls no save and builds and sends no message.
C20_EmptyAggregateFrame ==
    EmptyAggregate =>
        /\ file = fileAtStart
        /\ seen_listings = loaded
        /\ ~detected /\ new_listings = <<>>
        /\ saves = 0 /\ saveResult = "none"
        /\ delivery = "none" /\ digest = NoDigest

\* A run against a store in the bare-list format has completed after one
\* source gave an empty page and the other failed.
C20_Witness ==
    /\ RunCompleted
    /\ EmptyAggregate
    /\ search_urls = MaxSources
    /\ polled[1].status = "ok"
    /\ polled[MaxSources].status # "ok"
    /\ file.kind = "list"
    /\ seen_listings # {}

====
